---- MODULE Spec2Model ----
(***************************************************************************)
(* Request handlers of aerofacil/views.py over the Trip, Booking and       *)
(* Aircraft tables.  Every handler is one action: the mixins' dispatch,    *)
(* the generic view's form validation and the handler's own form_valid.    *)
(***************************************************************************)
EXTENDS Integers, Sequences, FiniteSets, TLC

VARIABLES
    trips,          \* Trip table: pk -> row
    bookings,       \* Booking table: set of rows (pk in field id)
    aircraft,       \* Aircraft table: pk -> owner
    nextTripId,     \* next autoincrement pk of Trip
    nextBookingId,  \* next autoincrement pk of Booking
    creator,        \* history: pk -> user whose create-trip request made the row
    resp,           \* outcome of the last request handled atomically
    pc,             \* create-booking requests in flight (concurrent handling)
    query,          \* GET parameters and clock reading of the last search
    listing         \* result of the last search

vars == <<trips, bookings, aircraft, nextTripId, nextBookingId, creator, resp,
          pc, query, listing>>

----------------------------------------------------------------------------
(* Bounds *)

MaxTrips == 1
MaxBookings == 2
NumSlots == 2
MaxRows == 2

----------------------------------------------------------------------------
(* Users and tables *)

Users == {"u1", "u2", "u3"}
Anonymous == "anon"
Requesters == Users \cup {Anonymous}

AircraftIds == {"a1", "a2"}
InitialAircraft == [a \in AircraftIds |-> IF a = "a1" THEN "u1" ELSE "u2"]

Statuses == {"OPEN", "CLOSED"}
DefaultStatus == "OPEN"

TripPks == 1 .. (MaxTrips + 1)

(* Values a trip form can carry.  ok is the verdict of the field-level     *)
(* validation of everything but the aircraft choice; owner is a value a    *)
(* client may add to the POST body although the form has no such field.    *)
(* One form stands for all the submissions that fail field validation, and *)
(* the posted owner is a user who creates no trip, so that it differs from *)
(* the requester of every accepted submission.                             *)
PostedOwners == {"u3"}

ValidTripForms ==
    [owner : PostedOwners, aircraft : AircraftIds,
     origin : {<<"N", "a">>}, destination : {<<"R", "e">>},
     departure_time : {5}, arrival_time : {6}, available_seats : {3},
     description : {"d"}, status : Statuses, ok : {TRUE}]

InvalidTripForm ==
    [owner |-> "u1", aircraft |-> "a1", origin |-> <<>>, destination |-> <<>>,
     departure_time |-> 0, arrival_time |-> 0, available_seats |-> 0,
     description |-> "", status |-> "OPEN", ok |-> FALSE]

TripForms == ValidTripForms \cup {InvalidTripForm}

BookingForms ==
    [seats_requested : {1}, message_to_owner : {"m"}, ok : BOOLEAN]

Response(view, outcome) == [view |-> view, outcome |-> outcome]
NoResponse == Response("none", "none")

NoRequests == [r \in {} |-> r]
Absent(empty) == [present |-> FALSE, value |-> empty]
Given(v) == [present |-> TRUE, value |-> v]
NoQuery == [origin |-> Absent(<<>>), destination |-> Absent(<<>>),
            date |-> Absent(""), now |-> 0]
NoListing == [status |-> "none", trips |-> <<>>]

----------------------------------------------------------------------------
(* Create booking *)

BookingExists(bs, pk, u) == \E b \in bs : b.trip = pk /\ b.passenger = u

(* Booking declares no constraint over (trip, passenger): a row is always  *)
(* accepted by the table.                                                  *)
BookingTableAccepts(bs, row) == TRUE

NewBooking(id, pk, u, form) ==
    [id |-> id, trip |-> pk, passenger |-> u,
     seats_requested |-> form.seats_requested,
     message_to_owner |-> form.message_to_owner]

CreateBookingOutcome_NoDuplicateCheck(ts, bs, u, pk, form) ==
    IF u = Anonymous THEN "login_redirect"
    ELSE IF ~form.ok THEN "form_invalid"
    ELSE IF pk \notin DOMAIN ts THEN "not_found"
    ELSE IF ts[pk].owner = u THEN "self_booking_error"
    ELSE "booking_created"

CreateBookingOutcome_NoOwnerCheck(ts, bs, u, pk, form) ==
    IF u = Anonymous THEN "login_redirect"
    ELSE IF ~form.ok THEN "form_invalid"
    ELSE IF pk \notin DOMAIN ts THEN "not_found"
    ELSE IF BookingExists(bs, pk, u) THEN "duplicate_warning"
    ELSE "booking_created"

CreateBookingOutcome_TripBeforeForm(ts, bs, u, pk, form) ==
    IF u = Anonymous THEN "login_redirect"
    ELSE IF pk \notin DOMAIN ts THEN "not_found"
    ELSE IF ~form.ok THEN "form_invalid"
    ELSE IF ts[pk].owner = u THEN "self_booking_error"
    ELSE IF BookingExists(bs, pk, u) THEN "duplicate_warning"
    ELSE "booking_created"

(* POST to create-booking: LoginRequiredMixin.dispatch, then the form's    *)
(* validation in ProcessFormView.post, then form_valid.                    *)
CreateBookingOutcome(ts, bs, u, pk, form) ==
    IF u = Anonymous THEN "login_redirect"
    ELSE IF ~form.ok THEN "form_invalid"
    ELSE IF pk \notin DOMAIN ts THEN "not_found"
    ELSE IF ts[pk].owner = u THEN "self_booking_error"
    ELSE IF BookingExists(bs, pk, u) THEN "duplicate_warning"
    ELSE "booking_created"

CreateBooking(u, pk, form) ==
    LET out == CreateBookingOutcome(trips, bookings, u, pk, form)
        row == NewBooking(nextBookingId, pk, u, form)
    IN  /\ out = "booking_created" => nextBookingId <= MaxBookings
        /\ IF out # "booking_created"
             THEN /\ resp' = Response("create_booking", out)
                  /\ UNCHANGED <<bookings, nextBookingId>>
             ELSE IF BookingTableAccepts(bookings, row)
             THEN /\ resp' = Response("create_booking", out)
                  /\ bookings' = bookings \cup {row}
                  /\ nextBookingId' = nextBookingId + 1
             ELSE /\ resp' = Response("create_booking", "integrity_error")
                  /\ UNCHANGED <<bookings, nextBookingId>>
        /\ UNCHANGED <<trips, aircraft, nextTripId, creator, pc, query, listing>>

----------------------------------------------------------------------------
(* Create, update and delete trip *)

CreateFormAircraftChoices_All(u) == AircraftIds

(* TripCreateView.get_form: the aircraft field offers, and accepts, only   *)
(* the requester's aircraft.                                               *)
CreateFormAircraftChoices(u) == {a \in AircraftIds : aircraft[a] = u}

(* TripUpdateView overrides no get_form: the field keeps every aircraft.   *)
UpdateFormAircraftChoices(u) == AircraftIds

NewTrip(u, form) ==
    [owner |-> u, aircraft |-> form.aircraft, origin |-> form.origin,
     destination |-> form.destination, departure_time |-> form.departure_time,
     arrival_time |-> form.arrival_time, available_seats |-> form.available_seats,
     description |-> form.description, status |-> DefaultStatus]

TripCreate(u, form) ==
    /\ IF u = Anonymous
         THEN /\ resp' = Response("create_trip", "login_redirect")
              /\ UNCHANGED <<trips, nextTripId, creator>>
         ELSE IF ~form.ok \/ form.aircraft \notin CreateFormAircraftChoices(u)
         THEN /\ resp' = Response("create_trip", "form_invalid")
              /\ UNCHANGED <<trips, nextTripId, creator>>
         ELSE /\ nextTripId <= MaxTrips
              /\ resp' = Response("create_trip", "trip_created")
              /\ trips' = [pk \in DOMAIN trips \cup {nextTripId} |->
                             IF pk = nextTripId THEN NewTrip(u, form) ELSE trips[pk]]
              /\ creator' = [pk \in DOMAIN creator \cup {nextTripId} |->
                               IF pk = nextTripId THEN u ELSE creator[pk]]
              /\ nextTripId' = nextTripId + 1
    /\ UNCHANGED <<bookings, aircraft, nextBookingId, pc, query, listing>>

UpdatedTrip_WithOwner(row, form) ==
    [row EXCEPT !.owner = form.owner,
                !.aircraft = form.aircraft, !.origin = form.origin,
                !.destination = form.destination,
                !.departure_time = form.departure_time,
                !.arrival_time = form.arrival_time,
                !.available_seats = form.available_seats,
                !.description = form.description, !.status = form.status]

(* TripUpdateView.fields: the columns an update writes. *)
UpdatedTrip(row, form) ==
    [row EXCEPT !.aircraft = form.aircraft, !.origin = form.origin,
                !.destination = form.destination,
                !.departure_time = form.departure_time,
                !.arrival_time = form.arrival_time,
                !.available_seats = form.available_seats,
                !.description = form.description, !.status = form.status]

IsTripOwner_Anyone(u, pk) == TRUE

(* test_func of TripUpdateView and TripDeleteView. *)
IsTripOwner(u, pk) == u = trips[pk].owner

TripUpdate(u, pk, form) ==
    /\ IF u = Anonymous
         THEN resp' = Response("update_trip", "login_redirect") /\ UNCHANGED trips
         ELSE IF pk \notin DOMAIN trips
         THEN resp' = Response("update_trip", "not_found") /\ UNCHANGED trips
         ELSE IF ~IsTripOwner(u, pk)
         THEN resp' = Response("update_trip", "forbidden") /\ UNCHANGED trips
         ELSE IF ~form.ok \/ form.aircraft \notin UpdateFormAircraftChoices(u)
         THEN resp' = Response("update_trip", "form_invalid") /\ UNCHANGED trips
         ELSE /\ resp' = Response("update_trip", "trip_updated")
              /\ trips' = [trips EXCEPT ![pk] = UpdatedTrip(trips[pk], form)]
    /\ UNCHANGED <<bookings, aircraft, nextTripId, nextBookingId, creator,
                   pc, query, listing>>

(* Booking.trip is a foreign key: the rows of a deleted trip go with it. *)
BookingsAfterTripDelete(bs, pk) == {b \in bs : b.trip # pk}

TripDelete(u, pk) ==
    /\ IF u = Anonymous
         THEN /\ resp' = Response("delete_trip", "login_redirect")
              /\ UNCHANGED <<trips, bookings>>
         ELSE IF pk \notin DOMAIN trips
         THEN /\ resp' = Response("delete_trip", "not_found")
              /\ UNCHANGED <<trips, bookings>>
         ELSE IF ~IsTripOwner(u, pk)
         THEN /\ resp' = Response("delete_trip", "forbidden")
              /\ UNCHANGED <<trips, bookings>>
         ELSE /\ resp' = Response("delete_trip", "trip_deleted")
              /\ trips' = [p \in DOMAIN trips \ {pk} |-> trips[p]]
              /\ bookings' = BookingsAfterTripDelete(bookings, pk)
    /\ UNCHANGED <<aircraft, nextTripId, nextBookingId, creator, pc, query, listing>>

----------------------------------------------------------------------------
(* Requests handled one at a time *)

Init ==
    /\ trips = [pk \in {} |-> pk]
    /\ bookings = {}
    /\ aircraft = InitialAircraft
    /\ nextTripId = 1
    /\ nextBookingId = 1
    /\ creator = [pk \in {} |-> pk]
    /\ resp = NoResponse
    /\ pc = NoRequests
    /\ query = NoQuery
    /\ listing = NoListing

Next ==
    \/ \E u \in Requesters, pk \in TripPks, form \in BookingForms :
           CreateBooking(u, pk, form)
    \/ \E u \in Requesters, form \in TripForms : TripCreate(u, form)
    \/ \E u \in Requesters, pk \in TripPks, form \in TripForms :
           TripUpdate(u, pk, form)
    \/ \E u \in Requesters, pk \in TripPks : TripDelete(u, pk)

Spec == Init /\ [][Next]_vars

----------------------------------------------------------------------------
(* Create-booking requests handled concurrently.  Each slot is a worker    *)
(* running CreateBookingView on one request; the existence query and the   *)
(* INSERT are separate accesses to the Booking table.                      *)

Slots == 1 .. NumSlots

Idle == [state |-> "idle", user |-> Anonymous, trip |-> 0,
         seats_requested |-> 0, message_to_owner |-> "", outcome |-> "none"]

InFlight(st, u, pk, form, out) ==
    [state |-> st, user |-> u, trip |-> pk,
     seats_requested |-> form.seats_requested,
     message_to_owner |-> form.message_to_owner, outcome |-> out]

(* dispatch, form validation, get_object_or_404 and the owner test: the    *)
(* checks of the handler that do not read the Booking table.               *)
BookingBegin(r, u, pk, form) ==
    /\ pc[r].state = "idle"
    /\ LET out == CreateBookingOutcome(trips, {}, u, pk, form)
       IN  pc' = [pc EXCEPT ![r] =
                     IF out = "booking_created"
                     THEN InFlight("check", u, pk, form, "none")
                     ELSE InFlight("done", u, pk, form, out)]
    /\ UNCHANGED <<trips, bookings, aircraft, nextTripId, nextBookingId, creator,
                   resp, query, listing>>

(* Booking.objects.filter(trip=trip, passenger=user).exists() *)
BookingCheck(r) ==
    /\ pc[r].state = "check"
    /\ pc' = [pc EXCEPT ![r] =
                 IF BookingExists(bookings, pc[r].trip, pc[r].user)
                 THEN [pc[r] EXCEPT !.state = "done", !.outcome = "duplicate_warning"]
                 ELSE [pc[r] EXCEPT !.state = "save"]]
    /\ UNCHANGED <<trips, bookings, aircraft, nextTripId, nextBookingId, creator,
                   resp, query, listing>>

BookingSave_GetOrCreate(r) ==
    /\ pc[r].state = "save"
    /\ nextBookingId <= MaxBookings
    /\ IF BookingExists(bookings, pc[r].trip, pc[r].user)
         THEN /\ pc' = [pc EXCEPT ![r] = [pc[r] EXCEPT !.state = "done",
                                             !.outcome = "duplicate_warning"]]
              /\ UNCHANGED <<bookings, nextBookingId>>
         ELSE /\ bookings' = bookings \cup
                     {NewBooking(nextBookingId, pc[r].trip, pc[r].user, pc[r])}
              /\ nextBookingId' = nextBookingId + 1
              /\ pc' = [pc EXCEPT ![r] = [pc[r] EXCEPT !.state = "done",
                                             !.outcome = "booking_created"]]
    /\ UNCHANGED <<trips, aircraft, nextTripId, creator, resp, query, listing>>

(* form.instance.passenger, form.instance.trip, super().form_valid(form):  *)
(* the row is inserted without looking at the table again.                 *)
BookingSave(r) ==
    /\ pc[r].state = "save"
    /\ nextBookingId <= MaxBookings
    /\ LET row == NewBooking(nextBookingId, pc[r].trip, pc[r].user, pc[r])
       IN  IF BookingTableAccepts(bookings, row)
           THEN /\ bookings' = bookings \cup {row}
                /\ nextBookingId' = nextBookingId + 1
                /\ pc' = [pc EXCEPT ![r] = [pc[r] EXCEPT !.state = "done",
                                               !.outcome = "booking_created"]]
           ELSE /\ pc' = [pc EXCEPT ![r] = [pc[r] EXCEPT !.state = "done",
                                               !.outcome = "integrity_error"]]
                /\ UNCHANGED <<bookings, nextBookingId>>
    /\ UNCHANGED <<trips, aircraft, nextTripId, creator, resp, query, listing>>

(* The response leaves; the worker takes the next request. *)
BookingRespond(r) ==
    /\ pc[r].state = "done"
    /\ pc' = [pc EXCEPT ![r] = Idle]
    /\ UNCHANGED <<trips, bookings, aircraft, nextTripId, nextBookingId, creator,
                   resp, query, listing>>

ValidTripForm == CHOOSE f \in ValidTripForms : f.aircraft = "a1"

InitConc ==
    /\ trips = [pk \in {1} |-> NewTrip("u1", ValidTripForm)]
    /\ bookings = {}
    /\ aircraft = InitialAircraft
    /\ nextTripId = 2
    /\ nextBookingId = 1
    /\ creator = [pk \in {1} |-> "u1"]
    /\ resp = NoResponse
    /\ pc = [r \in Slots |-> Idle]
    /\ query = NoQuery
    /\ listing = NoListing

NextConc ==
    \/ \E r \in Slots, u \in Requesters, pk \in TripPks, form \in BookingForms :
           BookingBegin(r, u, pk, form)
    \/ \E r \in Slots : BookingCheck(r)
    \/ \E r \in Slots : BookingSave(r)
    \/ \E r \in Slots : BookingRespond(r)

SpecConc == InitConc /\ [][NextConc]_vars

----------------------------------------------------------------------------
(* Search listing.  Text is a sequence of letters; departure_time counts   *)
(* half days from 2024-05-01 00:00; a date parameter is the text the       *)
(* client sent.                                                            *)

Letters == {"n", "N", "a", "A", "r", "R"}

Upper(c) == CASE c = "n" -> "N" [] c = "a" -> "A" [] c = "r" -> "R" [] OTHER -> c

UpperText(t) == [i \in 1 .. Len(t) |-> Upper(t[i])]

(* field__icontains=needle: containment after folding case on both sides. *)
IContains(hay, needle) ==
    \E i \in 0 .. (Len(hay) - Len(needle)) :
        SubSeq(UpperText(hay), i + 1, i + Len(needle)) = UpperText(needle)

(* DateField.to_python on the lookup value: the day a YYYY-MM-DD text      *)
(* names, or a ValidationError for any other text.                         *)
ParseDate(text) ==
    CASE text = "2024-05-01" -> [ok |-> TRUE, day |-> 0]
      [] text = "2024-05-02" -> [ok |-> TRUE, day |-> 1]
      [] text = "2024-05-03" -> [ok |-> TRUE, day |-> 2]
      [] OTHER -> [ok |-> FALSE, day |-> 0]

(* departure_time__date: the calendar day a departure_time falls on. *)
DateOf(t) == t \div 2

(* Python truth of request.GET.get(key): None and the empty text are false. *)
Truthy(param, empty) == param.present /\ param.value # empty

(* Trip.objects.filter(status='OPEN', departure_time__gte=timezone.now()) *)
BaseQueryset(ts, now) ==
    {pk \in DOMAIN ts : ts[pk].status = "OPEN" /\ ts[pk].departure_time >= now}

(* TripListView.get_queryset up to the ordering: the rows selected, or the *)
(* exception the date lookup raises.                                       *)
GetQueryset(ts, q) ==
    LET q0 == BaseQueryset(ts, q.now)
        q1 == IF Truthy(q.origin, <<>>)
              THEN {pk \in q0 : IContains(ts[pk].origin, q.origin.value)}
              ELSE q0
        q2 == IF Truthy(q.destination, <<>>)
              THEN {pk \in q1 : IContains(ts[pk].destination, q.destination.value)}
              ELSE q1
    IN  IF ~Truthy(q.date, "")
        THEN [status |-> "ok", rows |-> q2]
        ELSE IF ~ParseDate(q.date.value).ok
        THEN [status |-> "error", rows |-> {}]
        ELSE [status |-> "ok",
              rows |-> {pk \in q2 : DateOf(ts[pk].departure_time)
                                       = ParseDate(q.date.value).day}]

(* order_by('departure_time'): every arrangement of the rows in which      *)
(* departure_time never decreases (rows of equal time come in any order).  *)
OrderByDeparture(ts, rows) ==
    {s \in [1 .. Cardinality(rows) -> rows] :
        /\ \A i, j \in DOMAIN s : i # j => s[i] # s[j]
        /\ \A i, j \in DOMAIN s :
              i < j => ts[s[i]].departure_time <= ts[s[j]].departure_time}

Search(q) ==
    /\ query' = q
    /\ LET res == GetQueryset(trips, q)
       IN  IF res.status = "error"
           THEN listing' = [status |-> "error", trips |-> <<>>]
           ELSE \E s \in OrderByDeparture(trips, res.rows) :
                    listing' = [status |-> "ok", trips |-> s]
    /\ UNCHANGED <<trips, bookings, aircraft, nextTripId, nextBookingId, creator,
                   resp, pc>>

SearchRows ==
    [owner : {"u1"}, aircraft : {"a1"},
     origin : {<<"N", "a">>, <<"a", "n">>}, destination : {<<"R">>, <<"N">>},
     departure_time : 0 .. 3, arrival_time : {4}, available_seats : {3},
     description : {"d"}, status : Statuses]

OriginParams == {Absent(<<>>), Given(<<>>), Given(<<"n">>), Given(<<"n", "A">>)}
DestinationParams == {Absent(<<>>), Given(<<"r">>)}
DateParams == {Absent(""), Given(""), Given("2024-05-01"), Given("2024-05-02"),
               Given("abc")}
Queries == [origin : OriginParams, destination : DestinationParams,
            date : DateParams, now : 1 .. 2]

InitSearch ==
    /\ \E n \in 0 .. MaxRows : trips \in [1 .. n -> SearchRows]
    /\ bookings = {}
    /\ aircraft = InitialAircraft
    /\ nextTripId = Cardinality(DOMAIN trips) + 1
    /\ nextBookingId = 1
    /\ creator = [pk \in DOMAIN trips |-> "u1"]
    /\ resp = NoResponse
    /\ pc = NoRequests
    /\ query = NoQuery
    /\ listing = NoListing

NextSearch == \E q \in Queries : Search(q)

SpecSearch == InitSearch /\ [][NextSearch]_vars

----------------------------------------------------------------------------
(* Properties of requests handled one at a time *)

BookingsFor(pk, u) == {b \in bookings : b.trip = pk /\ b.passenger = u}

AtMostOneBookingPerPair ==
    \A pk \in TripPks, u \in Users : Cardinality(BookingsFor(pk, u)) <= 1

SecondSubmissionWarns ==
    [][\A u \in Users, pk \in DOMAIN trips, form \in BookingForms :
          (form.ok /\ BookingExists(bookings, pk, u) /\ CreateBooking(u, pk, form))
              => /\ resp' = Response("create_booking", "duplicate_warning")
                 /\ bookings' = bookings]_vars

\* C1: with create-booking requests handled one at a time, every (trip, user)
\* pair has at most one Booking in every reachable state, and a valid
\* submission by a user who already has a Booking on the trip creates no row
\* and answers with the duplicate warning.
C1_AtMostOneBooking == []AtMostOneBookingPerPair /\ SecondSubmissionWarns

C1_Witness ==
    /\ resp = Response("create_booking", "duplicate_warning")
    /\ \E pk \in DOMAIN trips, u \in Users : Cardinality(BookingsFor(pk, u)) = 1

\* C2 as stated: whatever the form carries, a POST by the owner of an
\* existing trip answers with the self-booking error and leaves the Booking
\* table as it was.
C2_Original ==
    [][\A u \in Users, pk \in DOMAIN trips, form \in BookingForms :
          (trips[pk].owner = u /\ CreateBooking(u, pk, form))
              => /\ resp' = Response("create_booking", "self_booking_error")
                 /\ bookings' = bookings]_vars

\* C2 amended: a POST by the owner of an existing trip never changes the
\* Booking table; it answers with the self-booking error when the form
\* passes validation and with the re-displayed form when it does not.
C2_OwnerCannotBook ==
    [][\A u \in Users, pk \in DOMAIN trips, form \in BookingForms :
          (trips[pk].owner = u /\ CreateBooking(u, pk, form))
              => /\ bookings' = bookings
                 /\ resp'.view = "create_booking"
                 /\ form.ok => resp'.outcome = "self_booking_error"
                 /\ ~form.ok => resp'.outcome = "form_invalid"]_vars

C2_Witness ==
    /\ resp = Response("create_booking", "self_booking_error")
    /\ \E pk \in DOMAIN trips : trips[pk].owner \in Users

\* C3: an update or delete request by an authenticated user who is not the
\* owner of an existing trip answers Forbidden and leaves the Trip table as
\* it was; every step that changes or removes a Trip row is an update or
\* delete request by the user who owns the row in the state it is taken from.
C3_OnlyOwnerMutates ==
    [][/\ \A u \in Users, pk \in DOMAIN trips :
             (/\ u # trips[pk].owner
              /\ \/ \E form \in TripForms : TripUpdate(u, pk, form)
                 \/ TripDelete(u, pk))
                 => (resp'.outcome = "forbidden" /\ trips' = trips)
       /\ \A pk \in DOMAIN trips :
             (pk \notin DOMAIN trips' \/ trips'[pk] # trips[pk])
                 => \/ \E form \in TripForms : TripUpdate(trips[pk].owner, pk, form)
                    \/ TripDelete(trips[pk].owner, pk)]_vars

C3_Witness ==
    /\ resp.outcome = "forbidden"
    /\ \E pk \in DOMAIN trips : \E u \in Users : u # trips[pk].owner

\* C4 as stated: the outcome of a create-booking POST is that of the first
\* failing precondition in the order trip exists, requester authenticated,
\* requester is not the owner, no Booking yet; no row is created on failure.
C4_Original ==
    [][\A u \in Requesters, pk \in TripPks, form \in BookingForms :
          CreateBooking(u, pk, form)
              => /\ resp'.outcome # "booking_created" => bookings' = bookings
                 /\ resp'.outcome = IF pk \notin DOMAIN trips THEN "not_found"
                            ELSE IF u = Anonymous THEN "login_redirect"
                            ELSE IF trips[pk].owner = u THEN "self_booking_error"
                            ELSE IF BookingExists(bookings, pk, u)
                                 THEN "duplicate_warning"
                            ELSE "booking_created"]_vars

\* C4 amended: the outcome of a create-booking POST is that of the first
\* failing check in the order requester authenticated (login redirect), form
\* passes validation (form re-displayed), trip exists (NotFound), requester
\* is not the owner (self-booking error), no Booking yet (duplicate
\* warning); no row is created in any failing case.
C4_CheckOrder ==
    [][\A u \in Requesters, pk \in TripPks, form \in BookingForms :
          CreateBooking(u, pk, form)
              => /\ resp'.outcome # "booking_created" => bookings' = bookings
                 /\ resp'.view = "create_booking"
                 /\ u = Anonymous => resp'.outcome = "login_redirect"
                 /\ (u # Anonymous /\ ~form.ok) => resp'.outcome = "form_invalid"
                 /\ (u # Anonymous /\ form.ok /\ pk \notin DOMAIN trips)
                        => resp'.outcome = "not_found"
                 /\ (u # Anonymous /\ form.ok /\ pk \in DOMAIN trips)
                        => resp'.outcome =
                               IF trips[pk].owner = u THEN "self_booking_error"
                               ELSE IF BookingExists(bookings, pk, u)
                                    THEN "duplicate_warning"
                               ELSE "booking_created"]_vars

\* A submission that fails validation was answered with the form while no
\* trip existed at all: the trip it named did not exist.
C4_Witness ==
    /\ resp = Response("create_booking", "form_invalid")
    /\ DOMAIN trips = {}

\* C5: a Trip row persisted by a create-trip submission of user U has
\* owner U, whatever owner the POST body names, and an aircraft U owns; a
\* submission naming an aircraft U does not own is rejected by the form and
\* persists nothing.
C5_CreatedTripOwnedByRequester ==
    [][\A u \in Users, form \in TripForms :
          TripCreate(u, form)
              => /\ \A pk \in DOMAIN trips' \ DOMAIN trips :
                        /\ trips'[pk].owner = u
                        /\ aircraft[trips'[pk].aircraft] = u
                 /\ (form.ok /\ aircraft[form.aircraft] # u)
                        => /\ resp' = Response("create_trip", "form_invalid")
                           /\ trips' = trips]_vars

C5_Witness ==
    /\ resp = Response("create_trip", "trip_created")
    /\ \E pk \in DOMAIN trips : aircraft[trips[pk].aircraft] = trips[pk].owner

\* C9: in every reachable state every Trip's aircraft is owned by the
\* Trip's owner.
C9_AircraftOwnedByTripOwner ==
    \A pk \in DOMAIN trips : aircraft[trips[pk].aircraft] = trips[pk].owner

\* C10: in every reachable state every existing Trip's owner is the user
\* whose create-trip request made it.
C10_OwnerNeverChanges ==
    \A pk \in DOMAIN trips : trips[pk].owner = creator[pk]

C10_Witness ==
    /\ resp = Response("update_trip", "trip_updated")
    /\ \E pk \in DOMAIN trips : trips[pk].status = "CLOSED"

----------------------------------------------------------------------------
(* Properties of concurrent create-booking requests *)

\* C8: a create-booking request that has passed the existence check inserts
\* its Booking when it saves, whatever other requests have inserted since
\* the check: nothing in the handler excludes a second row for the pair.
C8_SaveAlwaysInserts ==
    [][\A r \in Slots :
          BookingSave(r)
              => \E b \in bookings' \ bookings :
                     b.trip = pc[r].trip /\ b.passenger = pc[r].user]_vars

\* Two requests of one user for one trip both passed the check before
\* either saved, and both saved.
C8_Witness ==
    \E r1 \in Slots, r2 \in Slots :
        /\ r1 # r2
        /\ pc[r1].state = "done" /\ pc[r1].outcome = "booking_created"
        /\ pc[r2].state = "done" /\ pc[r2].outcome = "booking_created"
        /\ pc[r1].user = pc[r2].user /\ pc[r1].trip = pc[r2].trip
        /\ pc[r1].user # trips[pc[r1].trip].owner
        /\ Cardinality(BookingsFor(pc[r1].trip, pc[r1].user)) = 2

----------------------------------------------------------------------------
(* Properties of the search listing *)

SameLetter(c, d) ==
    \/ c = d
    \/ {c, d} \in {{"n", "N"}, {"a", "A"}, {"r", "R"}}

(* needle occurs in hay, letter case ignored *)
OccursIgnoringCase(hay, needle) ==
    \E k \in 0 .. Len(hay) :
        /\ k + Len(needle) <= Len(hay)
        /\ \A i \in 1 .. Len(needle) : SameLetter(hay[k + i], needle[i])

DayName(d) ==
    CASE d = 0 -> "2024-05-01" [] d = 1 -> "2024-05-02" [] OTHER -> "2024-05-03"

Supplied(param, empty) == param.present /\ param.value # empty

(* The trips the listing is to show for the query. *)
Wanted(q) ==
    {pk \in DOMAIN trips :
        /\ trips[pk].status = "OPEN"
        /\ trips[pk].departure_time >= q.now
        /\ Supplied(q.origin, <<>>)
              => OccursIgnoringCase(trips[pk].origin, q.origin.value)
        /\ Supplied(q.destination, <<>>)
              => OccursIgnoringCase(trips[pk].destination, q.destination.value)
        /\ Supplied(q.date, "")
              => DayName(trips[pk].departure_time \div 2) = q.date.value}

ListingIsWanted ==
    /\ listing.status = "ok"
    /\ {listing.trips[i] : i \in DOMAIN listing.trips} = Wanted(query)
    /\ \A i, j \in DOMAIN listing.trips :
          i < j => /\ listing.trips[i] # listing.trips[j]
                   /\ trips[listing.trips[i]].departure_time
                          <= trips[listing.trips[j]].departure_time

\* C6: after a search with any combination of the origin, destination and
\* date parameters the listing holds exactly the OPEN trips departing at or
\* after now that satisfy every supplied filter, in ascending
\* departure_time order.
C6_ListingIsFilteredBaseSet == listing.status # "none" => ListingIsWanted

\* The same for the queries whose date is absent, empty or names a
\* calendar day.
ListingIsWantedForCalendarDates ==
    (listing.status # "none"
        /\ (Supplied(query.date, "") => ParseDate(query.date.value).ok))
        => ListingIsWanted

\* C7: a search never ends in an error, whatever its parameters.
C7_SearchNeverErrors == listing.status # "error"

====
